---- MODULE Spec2Model ----
(***************************************************************************)
(* A model of tests_and_plots.py: main() runs three dataset analyses       *)
(* (students, heart, factory), each inside its own try/except, then writes *)
(* results.txt and results.json.                                           *)
(*                                                                         *)
(* Numbers.  The program computes in IEEE doubles; the model computes the  *)
(* same expressions exactly.  A value of type Q is a fraction n/d with     *)
(* d >= 0 in lowest terms, extended the way IEEE extends the reals:        *)
(* 1/0 is +inf, -1/0 is -inf and 0/0 is NaN.  A value of type S is a       *)
(* signed square root s*sqrt(q) of a Q (what np.sqrt / np.std return).     *)
(* Rounding is not modelled.  A missing CSV cell is NaN, as in pandas.     *)
(***************************************************************************)
EXTENDS Integers, Sequences, FiniteSets, TLC

\* ------------------------------------------------------------------ bounds
\* math_score cells of student_math_scores.csv range over 0..MaxScore
MaxScore == 2
\* cholesterol cells of heart_patient_cholesterol.csv range over 0..MaxChol
MaxChol == 1
\* the heart table has at most MaxRows rows
MaxRows == 3
\* product_weight cells of factory_machine_weights.csv range over 0..MaxWeight
MaxWeight == 2

\* --------------------------------------------------- exact IEEE-like numbers
Abs(i) == IF i < 0 THEN -i ELSE i

Sgn(i) == IF i < 0 THEN -1 ELSE IF i = 0 THEN 0 ELSE 1

RECURSIVE GCD(_, _)
GCD(a, b) == IF b = 0 THEN a ELSE GCD(b, a % b)

\* the fraction n/d in lowest terms, d >= 0; n/0 is sign(n)*inf, 0/0 is NaN
Norm(n, d) ==
  IF d = 0 THEN [n |-> Sgn(n), d |-> 0]
  ELSE LET g == GCD(Abs(n), Abs(d))
       IN  [n |-> Sgn(d) * Sgn(n) * (Abs(n) \div g), d |-> Abs(d) \div g]

QInt(i) == [n |-> i, d |-> 1]

QNaN == [n |-> 0, d |-> 0]

QInf == [n |-> 1, d |-> 0]

QIsNaN(a) == a.n = 0 /\ a.d = 0

QIsFinite(a) == a.d > 0

QAdd(a, b) ==
  IF a.d = 0 /\ b.d = 0 THEN (IF a = b THEN a ELSE QNaN)
  ELSE Norm(a.n * b.d + b.n * a.d, a.d * b.d)

QNeg(a) == [n |-> -a.n, d |-> a.d]

QSub(a, b) == QAdd(a, QNeg(b))

QMul(a, b) == Norm(a.n * b.n, a.d * b.d)

\* 1/a; 1/0 is +inf, 1/inf is 0
QInv(a) == IF a.n = 0 /\ a.d > 0 THEN QInf ELSE Norm(Sgn(a.n) * a.d, Abs(a.n))

QDiv(a, b) == QMul(a, QInv(b))

\* a > b and a <= b as IEEE compares: every comparison with NaN is false
QGt(a, b) == ~QIsNaN(a) /\ ~QIsNaN(b) /\ a.n * b.d > b.n * a.d

QLe(a, b) == ~QIsNaN(a) /\ ~QIsNaN(b) /\ a.n * b.d <= b.n * a.d

QAbs(a) == [n |-> Abs(a.n), d |-> a.d]

\* signed square roots: [s, q] stands for s * sqrt(q), q >= 0
SMk(s, q) ==
  IF QIsNaN(q) THEN [s |-> 0, q |-> QNaN]
  ELSE IF q.n = 0 THEN [s |-> 0, q |-> q]
  ELSE [s |-> s, q |-> q]

SNaN == [s |-> 0, q |-> QNaN]

SIsNaN(x) == QIsNaN(x.q)

SIsFinite(x) == QIsFinite(x.q)

\* a Q seen as an S
SFromQ(a) == SMk(Sgn(a.n), QMul(a, a))

\* np.sqrt: NaN for a negative or NaN argument
SSqrt(a) == IF QIsNaN(a) \/ a.n < 0 THEN SNaN ELSE SMk(1, a)

SMul(x, y) == SMk(x.s * y.s, QMul(x.q, y.q))

SInv(x) ==
  IF SIsNaN(x) THEN SNaN
  ELSE IF x.q.n = 0 THEN [s |-> 1, q |-> QInf]
  ELSE SMk(x.s, QInv(x.q))

SDiv(x, y) == SMul(x, SInv(y))

SAbs(x) == [s |-> Abs(x.s), q |-> x.q]

\* ------------------------------------------------------- numpy on 1-d arrays
\* an array is a sequence of Q values
RECURSIVE SumFrom(_, _, _)
SumFrom(x, i, acc) == IF i > Len(x) THEN acc ELSE SumFrom(x, i + 1, QAdd(acc, x[i]))

\* np.sum(x)
SumQ(x) == SumFrom(x, 1, QInt(0))

\* np.mean(x): the sum over the length; NaN (0/0) for the empty array
Mean(x) == QDiv(SumQ(x), QInt(Len(x)))

\* np.var(x, ddof=1): squared deviations over max(n - 1, 0)
Var1(x) ==
  LET m   == Mean(x)
      dev == [i \in 1..Len(x) |-> QMul(QSub(x[i], m), QSub(x[i], m))]
      dof == IF Len(x) > 1 THEN Len(x) - 1 ELSE 0
  IN  QDiv(SumQ(dev), QInt(dof))

\* np.std(x, ddof=1)
Std1(x) == SSqrt(Var1(x))

\* a - b on arrays of one length
ArrSub(a, b) == [i \in 1..Len(a) |-> QSub(a[i], b[i])]

RECURSIVE Insert(_, _)
Insert(v, s) ==
  IF s = <<>> THEN <<v>>
  ELSE IF QLe(v, Head(s)) THEN <<v>> \o s
  ELSE <<Head(s)>> \o Insert(v, Tail(s))

RECURSIVE SortFrom(_, _, _)
SortFrom(x, i, acc) == IF i > Len(x) THEN acc ELSE SortFrom(x, i + 1, Insert(x[i], acc))

\* np.sort(x)
SortQ(x) == SortFrom(x, 1, <<>>)

\* np.median(x)
Median(x) ==
  LET s == SortQ(x)
      n == Len(x)
  IN  IF n = 0 THEN QNaN
      ELSE IF n % 2 = 1 THEN s[(n + 1) \div 2]
      ELSE QDiv(QAdd(s[n \div 2], s[n \div 2 + 1]), QInt(2))

\* ---------------------------------------------------------- utility functions
\* cohen_d_independent with the means added instead of subtracted
cohen_d_independent_sum(x, y) ==
  LET pool_sd == SSqrt(QDiv(QAdd(QMul(QInt(Len(x) - 1), Var1(x)),
                                 QMul(QInt(Len(y) - 1), Var1(y))),
                            QInt(Len(x) + Len(y) - 2)))
  IN  SDiv(SFromQ(QAdd(Mean(x), Mean(y))), pool_sd)

\* cohen_d_independent(x, y): (mx - my) / pool_sd
cohen_d_independent(x, y) ==
  LET nx == Len(x)
      ny == Len(y)
      mx == Mean(x)
      my == Mean(y)
      vx == Var1(x)
      vy == Var1(y)
      pool_sd == SSqrt(QDiv(QAdd(QMul(QInt(nx - 1), vx), QMul(QInt(ny - 1), vy)),
                            QInt(nx + ny - 2)))
  IN  SDiv(SFromQ(QSub(mx, my)), pool_sd)

\* cohen_d_paired(a, b): mean(diff) / std(diff, ddof=1)
cohen_d_paired(a, b) ==
  LET diff == ArrSub(a, b)
  IN  SDiv(SFromQ(Mean(diff)), Std1(diff))

\* A tail probability of a scipy distribution that has no closed rational form
\* is kept as the term that names it: the function, its degrees of freedom and
\* the point it is evaluated at.
TailProb(fn, df1, df2, at) == [fn |-> fn, df1 |-> df1, df2 |-> df2, at |-> at]

\* two_tailed_from_z returning the one-sided tail of z
two_tailed_from_z_one_sided(z) == TailProb("norm.sf", QNaN, QNaN, z)

\* two_tailed_from_z(z): 2 * stats.norm.sf(abs(z))
two_tailed_from_z(z) == TailProb("2*norm.sf", QNaN, QNaN, SAbs(z))

\* ------------------------------------------------------------ scipy.stats
RECURSIVE Pow(_, _)
Pow(b, e) == IF e = 0 THEN 1 ELSE b * Pow(b, e - 1)

RECURSIVE Binom(_, _)
Binom(n, k) == IF k = 0 \/ k = n THEN 1 ELSE Binom(n - 1, k - 1) + Binom(n - 1, k)

RECURSIVE BetaSum(_, _, _, _)
\* sum over j = lo..m of C(m, j) * u^j * v^(m - j)
BetaSum(lo, m, u, v) ==
  IF lo > m THEN 0
  ELSE Binom(m, lo) * Pow(u, lo) * Pow(v, m - lo) + BetaSum(lo + 1, m, u, v)

\* the degrees of freedom for which the F distribution function is rational
EvenDf(df) == df > 0 /\ df % 2 = 0

\* stats.f.cdf(x, dfn, dfd) = I_t(dfn/2, dfd/2) at t = dfn*x / (dfn*x + dfd), the
\* regularized incomplete beta function; for integer a = dfn/2 and b = dfd/2 it
\* is the binomial sum over j = a..a+b-1 of C(a+b-1, j) t^j (1-t)^(a+b-1-j).
\* NaN for a NaN argument or degrees of freedom <= 0, 0 for x <= 0, 1 at +inf.
\* Odd degrees of freedom give no rational value: the model's tables never ask
\* for one (FactorySizes), and the choice from the empty set stops TLC if one did.
f_cdf(x, dfn, dfd) ==
  IF QIsNaN(x) \/ dfn <= 0 \/ dfd <= 0 THEN QNaN
  ELSE IF x.n <= 0 THEN QInt(0)
  ELSE IF x.d = 0 THEN QInt(1)
  ELSE IF ~(EvenDf(dfn) /\ EvenDf(dfd)) THEN CHOOSE q \in {} : TRUE
  ELSE LET a  == dfn \div 2
           b  == dfd \div 2
           m  == a + b - 1
           g  == GCD(dfn * x.n, dfd * x.d)
           u  == (dfn * x.n) \div g
           v  == (dfd * x.d) \div g
       IN  Norm(BetaSum(a, m, u, v), Pow(u + v, m))

\* stats.ttest_ind(a, b, equal_var=False): Welch's statistic
\* (ma - mb) / sqrt(va/na + vb/nb), p from Student's t with the
\* Welch-Satterthwaite degrees of freedom
ttest_ind_welch(a, b) ==
  LET na  == QInt(Len(a))
      nb  == QInt(Len(b))
      vna == QDiv(Var1(a), na)
      vnb == QDiv(Var1(b), nb)
      t   == SDiv(SFromQ(QSub(Mean(a), Mean(b))), SSqrt(QAdd(vna, vnb)))
      df  == QDiv(QMul(QAdd(vna, vnb), QAdd(vna, vnb)),
                  QAdd(QDiv(QMul(vna, vna), QInt(Len(a) - 1)),
                       QDiv(QMul(vnb, vnb), QInt(Len(b) - 1))))
  IN  [stat |-> t, p |-> TailProb("2*t.sf", df, QNaN, SAbs(t))]

\* stats.ttest_rel(a, b) on arrays of one length: mean(d) / sqrt(var(d)/n) with
\* d = a - b, p from Student's t with n - 1 degrees of freedom
ttest_rel(a, b) ==
  LET d  == ArrSub(a, b)
      n  == Len(a)
      t  == SDiv(SFromQ(Mean(d)), SSqrt(QDiv(Var1(d), QInt(n))))
  IN  [stat |-> t, p |-> TailProb("2*t.sf", QInt(n - 1), QNaN, SAbs(t))]

\* |x_j - median(x)| for each j
AbsDev(x) == LET c == Median(x) IN [j \in 1..Len(x) |-> QAbs(QSub(x[j], c))]

\* sum of squared deviations of z from its mean
SumSqDev(z) ==
  LET m == Mean(z)
  IN  SumQ([j \in 1..Len(z) |-> QMul(QSub(z[j], m), QSub(z[j], m))])

\* stats.levene(x, y), center='median', k = 2 samples:
\* W = (N - k) * sum_i n_i (Zbar_i - Zbar)^2 / ((k - 1) * sum_ij (Z_ij - Zbar_i)^2),
\* p = f.sf(W, k - 1, N - k)
levene(x, y) ==
  LET zx    == AbsDev(x)
      zy    == AbsDev(y)
      nx    == QInt(Len(x))
      ny    == QInt(Len(y))
      ntot  == Len(x) + Len(y)
      zbx   == Mean(zx)
      zby   == Mean(zy)
      zbar  == QDiv(QAdd(QMul(zbx, nx), QMul(zby, ny)), QInt(ntot))
      numer == QMul(QInt(ntot - 2),
                    QAdd(QMul(nx, QMul(QSub(zbx, zbar), QSub(zbx, zbar))),
                         QMul(ny, QMul(QSub(zby, zbar), QSub(zby, zbar)))))
      denom == QAdd(SumSqDev(zx), SumSqDev(zy))
      W     == QDiv(numer, denom)
  IN  [stat |-> W, p |-> TailProb("f.sf", QInt(1), QInt(ntot - 2), SFromQ(W))]

\* ------------------------------------------------------------ pandas tables
\* A file of the working directory: exists, and when it does its header
\* (columns) and its rows, each row a record of cells.  A cell of a numeric
\* column is a Q; the missing cell is NaN.
NoFile == [exists |-> FALSE, columns |-> {}, rows |-> <<>>]

CsvFile(columns, rows) == [exists |-> TRUE, columns |-> columns, rows |-> rows]

\* the outcome of a call: it returns a value or raises an Exception
Return(v) == [raised |-> FALSE, error |-> "", value |-> v]

Raise(msg) == [raised |-> TRUE, error |-> msg, value |-> <<>>]

\* the row labels, in row order from label i on, of the rows whose flag is set
RECURSIVE LabelsFrom(_, _)
LabelsFrom(flags, i) ==
  IF i > Len(flags) THEN <<>>
  ELSE (IF flags[i] THEN <<i>> ELSE <<>>) \o LabelsFrom(flags, i + 1)

\* the labels a boolean mask selects
Labels(mask) == LabelsFrom(mask, 1)

\* the mask of the rows whose cell in column col is present (notna)
Present(rows, col) == [i \in 1..Len(rows) |-> ~QIsNaN(rows[i][col])]

\* the elementwise conjunction of two masks of one length
MaskAnd(m1, m2) == [i \in 1..Len(m1) |-> m1[i] /\ m2[i]]

\* ---------- 1) T-test: student_math_scores.csv (independent) ----------
StudentColumns == {"student_id", "teaching_method", "math_score"}

\* df.loc[df['teaching_method'] == g, 'math_score'].dropna().values
students_group(rows, g) ==
  LET inGroup == [i \in 1..Len(rows) |-> rows[i].teaching_method = g]
      idx     == Labels(MaskAnd(inGroup, Present(rows, "math_score")))
  IN  [i \in 1..Len(idx) |-> rows[idx[i]].math_score]

analyze_students(file, fig_fails) ==
  IF ~file.exists THEN Raise("[Errno 2] No such file or directory: 'student_math_scores.csv'")
  ELSE IF ~(StudentColumns \subseteq file.columns) THEN Raise("")
  ELSE LET a  == students_group(file.rows, "A")
           b  == students_group(file.rows, "B")
           tt == ttest_ind_welch(a, b)
           d  == cohen_d_independent(a, b)
       IN  IF fig_fails THEN Raise("savefig: cannot write students_hist.png")
           ELSE Return([test    |-> "Welch t-test (students)",
                        t_stat  |-> tt.stat,
                        p_value |-> tt.p,
                        mean_A  |-> Mean(a),
                        mean_B  |-> Mean(b),
                        cohens_d |-> d,
                        n_A     |-> Len(a),
                        n_B     |-> Len(b)])

\* ---------- 2) Paired analysis: heart_patient_cholesterol.csv ----------
HeartColumns == {"patient_id", "cholesterol_before", "cholesterol_after"}

\* heart_labels without the re-alignment of lines 96-100
heart_labels_no_realign(rows) ==
  [before |-> Labels(Present(rows, "cholesterol_before")),
   after  |-> Labels(Present(rows, "cholesterol_after"))]

\* The row labels behind `before` and `after` when they reach the paired test
\* (lines 94-100): each column with its own missing cells dropped, and only when
\* the two lengths differ the rows where both cells are present.
heart_labels(rows) ==
  LET hasB    == Present(rows, "cholesterol_before")
      hasA    == Present(rows, "cholesterol_after")
      before0 == Labels(hasB)
      after0  == Labels(hasA)
      both    == Labels(MaskAnd(hasB, hasA))
  IN  IF Len(before0) # Len(after0)
      THEN [before |-> both, after |-> both]
      ELSE [before |-> before0, after |-> after0]

\* .values of the two columns at those labels
heart_before(rows) ==
  LET idx == heart_labels(rows).before
  IN  [i \in 1..Len(idx) |-> rows[idx[i]].cholesterol_before]

heart_after(rows) ==
  LET idx == heart_labels(rows).after
  IN  [i \in 1..Len(idx) |-> rows[idx[i]].cholesterol_after]

analyze_heart(file, fig_fails) ==
  IF ~file.exists THEN Raise("[Errno 2] No such file or directory: 'heart_patient_cholesterol.csv'")
  ELSE IF ~(HeartColumns \subseteq file.columns) THEN Raise("")
  ELSE LET before == heart_before(file.rows)
           after  == heart_after(file.rows)
       IN  IF Len(before) # Len(after) THEN Raise("unequal length arrays")
           ELSE LET tt        == ttest_rel(before, after)
                    mean_diff == Mean(ArrSub(before, after))
                    sd_diff   == Std1(ArrSub(before, after))
                    n         == Len(before)
                    z_stat    == SDiv(SFromQ(mean_diff), SDiv(sd_diff, SSqrt(QInt(n))))
                    z_p       == two_tailed_from_z(z_stat)
                    d         == cohen_d_paired(before, after)
                IN  IF n = 0
                    THEN Raise("zero-size array to reduction operation minimum which has no identity")
                    ELSE IF fig_fails THEN Raise("savefig: cannot write chol_scatter.png")
                    ELSE Return([test            |-> "Paired (cholesterol)",
                                 paired_t_stat   |-> tt.stat,
                                 paired_t_p      |-> tt.p,
                                 paired_z_stat   |-> z_stat,
                                 paired_z_p      |-> z_p,
                                 mean_diff       |-> mean_diff,
                                 sd_diff         |-> sd_diff,
                                 cohens_d_paired |-> d,
                                 n               |-> n])

\* ---------- 3) F-test: factory_machine_weights.csv ----------
FactoryColumns == {"unit_id", "machine", "product_weight"}

\* df.loc[df['machine'] == g, 'product_weight'].dropna().values
factory_group(rows, g) ==
  LET inGroup == [i \in 1..Len(rows) |-> rows[i].machine = g]
      idx     == Labels(MaskAnd(inGroup, Present(rows, "product_weight")))
  IN  [i \in 1..Len(idx) |-> rows[idx[i]].product_weight]

\* f_test branching on f_stat >= 1 instead of f_stat > 1
f_test_ge(x, y) ==
  LET f_stat == QDiv(Var1(x), Var1(y))
      c      == f_cdf(f_stat, Len(x) - 1, Len(y) - 1)
      p      == IF QGt(f_stat, QInt(1)) \/ f_stat = QInt(1)
                THEN QMul(QInt(2), QSub(QInt(1), c))
                ELSE QMul(QInt(2), c)
  IN  [f_stat |-> f_stat, p |-> p, varx |-> Var1(x), vary |-> Var1(y)]

\* f_test reporting a ratio of 0 when the denominator variance is 0
f_test_guarded(x, y) ==
  LET f_stat == IF Var1(y) = QInt(0) THEN QInt(0) ELSE QDiv(Var1(x), Var1(y))
      c      == f_cdf(f_stat, Len(x) - 1, Len(y) - 1)
      p      == IF QGt(f_stat, QInt(1))
                THEN QMul(QInt(2), QSub(QInt(1), c))
                ELSE QMul(QInt(2), c)
  IN  [f_stat |-> f_stat, p |-> p, varx |-> Var1(x), vary |-> Var1(y)]

\* lines 148-157: the variance ratio and its two-tailed p-value
f_test(x, y) ==
  LET varx   == Var1(x)
      vary   == Var1(y)
      f_stat == QDiv(varx, vary)
      dfn    == Len(x) - 1
      dfd    == Len(y) - 1
      p      == IF QGt(f_stat, QInt(1))
                THEN QMul(QInt(2), QSub(QInt(1), f_cdf(f_stat, dfn, dfd)))
                ELSE QMul(QInt(2), f_cdf(f_stat, dfn, dfd))
  IN  [f_stat |-> f_stat, p |-> p, varx |-> varx, vary |-> vary]

analyze_factory(file, fig_fails) ==
  IF ~file.exists THEN Raise("[Errno 2] No such file or directory: 'factory_machine_weights.csv'")
  ELSE IF ~(FactoryColumns \subseteq file.columns) THEN Raise("")
  ELSE LET x   == factory_group(file.rows, "A")
           y   == factory_group(file.rows, "B")
           ft  == f_test(x, y)
           lev == levene(x, y)
       IN  IF fig_fails THEN Raise("savefig: cannot write factory_hist.png")
           ELSE Return([test          |-> "F-test (variance ratio)",
                        F_stat        |-> ft.f_stat,
                        F_p_two_sided |-> ft.p,
                        var_A         |-> ft.varx,
                        var_B         |-> ft.vary,
                        n_A           |-> Len(x),
                        n_B           |-> Len(y),
                        levene_stat   |-> lev.stat,
                        levene_p      |-> lev.p])

\* ------------------------------------------------------------------ state
VARIABLES
  files,        \* the three CSV files of the working directory
  faults,       \* the output files the environment refuses to write in this run
  pc,           \* main()'s position
  results,      \* main()'s list `results`
  heart_args,   \* analyze_heart's `before` and `after` as they reach line 103
  results_txt,  \* output/results.txt
  results_json, \* output/results.json
  stdout        \* what main() printed

vars == <<files, faults, pc, results, heart_args, results_txt, results_json, stdout>>

\* ------------------------------------------------------------------ inputs
Ints2Q(s) == [i \in 1..Len(s) |-> QInt(s[i])]

\* a student table: the A rows, one A row with a missing score, the B rows
StudentsTable(a, b) ==
  CsvFile(StudentColumns,
    [i \in 1..Len(a) |->
       [student_id |-> i, teaching_method |-> "A", math_score |-> QInt(a[i])]]
    \o <<[student_id |-> Len(a) + 1, teaching_method |-> "A", math_score |-> QNaN]>>
    \o [i \in 1..Len(b) |->
       [student_id |-> Len(a) + 1 + i, teaching_method |-> "B", math_score |-> QInt(b[i])]])

\* group sizes of the student tables
StudentSizes == {2, 3}

StudentSamples == UNION {[1..n -> 0..MaxScore] : n \in StudentSizes}

StudentFiles == {StudentsTable(a, b) : a \in StudentSamples, b \in StudentSamples}

\* a heart table: every sequence of at most MaxRows rows, each cell a value of
\* 0..MaxChol or missing
CholCells == {QInt(v) : v \in 0..MaxChol} \cup {QNaN}

HeartTable(cells) ==
  CsvFile(HeartColumns,
    [i \in 1..Len(cells) |->
       [patient_id |-> i, cholesterol_before |-> cells[i][1],
        cholesterol_after |-> cells[i][2]]])

HeartFiles ==
  {HeartTable(c) : c \in UNION {[1..n -> CholCells \X CholCells] : n \in 0..MaxRows}}

\* a factory table: the A rows, one B row with a missing weight, the B rows.
\* Group sizes are odd, so that both degrees of freedom of the F-test are even
\* (f_cdf), and each group is listed in non-decreasing weight: nothing in lines
\* 148-160 depends on the order of the rows.
FactorySizes == {3, 5}

FactoryTable(x, y) ==
  CsvFile(FactoryColumns,
    [i \in 1..Len(x) |->
       [unit_id |-> i, machine |-> "A", product_weight |-> QInt(x[i])]]
    \o <<[unit_id |-> Len(x) + 1, machine |-> "B", product_weight |-> QNaN]>>
    \o [i \in 1..Len(y) |->
       [unit_id |-> Len(x) + 1 + i, machine |-> "B", product_weight |-> QInt(y[i])]])

FactorySamples ==
  UNION {{s \in [1..n -> 0..MaxWeight] : \A i \in 1..(n - 1) : s[i] <= s[i + 1]}
           : n \in FactorySizes}

FactoryFiles == {FactoryTable(x, y) : x \in FactorySamples, y \in FactorySamples}

\* one well-formed file of each kind, and one whose header lacks a column
GoodStudents == StudentsTable(<<0, 1, 2>>, <<1, 2, 2>>)

GoodHeart == HeartTable(<<<<QInt(1), QInt(0)>>, <<QInt(1), QInt(1)>>, <<QInt(0), QInt(1)>>>>)

GoodFactory == FactoryTable(<<0, 1, 2>>, <<0, 1, 1, 1, 2>>)

BadHeader == CsvFile({"id", "value"}, <<>>)

Outputs == {"students_fig", "heart_fig", "factory_fig", "results_txt", "results_json"}

InitRest ==
  /\ pc = "students"
  /\ results = <<>>
  /\ heart_args = [reached |-> FALSE, before_labels |-> <<>>, after_labels |-> <<>>,
                   before |-> <<>>, after |-> <<>>]
  /\ results_txt = [exists |-> FALSE, entries |-> <<>>]
  /\ results_json = [exists |-> FALSE, body |-> <<>>]
  /\ stdout = <<>>

\* every combination of missing, malformed and well-formed files and of
\* output faults
InitFaults ==
  /\ files \in [students : {NoFile, BadHeader, GoodStudents},
                heart    : {NoFile, BadHeader, GoodHeart},
                factory  : {NoFile, BadHeader, GoodFactory}]
  /\ faults \in SUBSET Outputs
  /\ InitRest

\* every student table of the bounds, the other two files missing
InitStudents ==
  /\ files \in [students : StudentFiles, heart : {NoFile}, factory : {NoFile}]
  /\ faults = {}
  /\ InitRest

\* every heart table of the bounds, the other two files missing
InitHeart ==
  /\ files \in [students : {NoFile}, heart : HeartFiles, factory : {NoFile}]
  /\ faults = {}
  /\ InitRest

\* every factory table of the bounds, the other two files missing
InitFactory ==
  /\ files \in [students : {NoFile}, heart : {NoFile}, factory : FactoryFiles]
  /\ faults = {}
  /\ InitRest

Init == InitFaults \/ InitStudents \/ InitHeart \/ InitFactory

\* ------------------------------------------------------------------ main()
\* what a try/except block of main appends: the result, or the error record
Attempt(tag, outcome) ==
  IF outcome.raised THEN [test |-> tag, error |-> outcome.error]
  ELSE outcome.value

\* lines 190-194
TryStudents ==
  /\ pc = "students"
  /\ results' = Append(results,
        Attempt("students", analyze_students(files.students, "students_fig" \in faults)))
  /\ pc' = "heart"
  /\ UNCHANGED <<files, faults, heart_args, results_txt, results_json, stdout>>

\* lines 196-200 without the except clause: the exception leaves main()
TryHeart_NoExcept ==
  /\ pc = "heart"
  /\ LET outcome == analyze_heart(files.heart, "heart_fig" \in faults)
     IN  IF outcome.raised
         THEN /\ pc' = "raised"
              /\ UNCHANGED results
         ELSE /\ pc' = "factory"
              /\ results' = Append(results, outcome.value)
  /\ UNCHANGED <<files, faults, heart_args, results_txt, results_json, stdout>>

\* lines 196-200
TryHeart ==
  /\ pc = "heart"
  /\ results' = Append(results,
        Attempt("heart", analyze_heart(files.heart, "heart_fig" \in faults)))
  /\ heart_args' =
       IF files.heart.exists /\ HeartColumns \subseteq files.heart.columns
       THEN [reached |-> TRUE,
             before_labels |-> heart_labels(files.heart.rows).before,
             after_labels  |-> heart_labels(files.heart.rows).after,
             before |-> heart_before(files.heart.rows),
             after  |-> heart_after(files.heart.rows)]
       ELSE heart_args
  /\ pc' = "factory"
  /\ UNCHANGED <<files, faults, results_txt, results_json, stdout>>

\* lines 202-206
TryFactory ==
  /\ pc = "factory"
  /\ results' = Append(results,
        Attempt("factory", analyze_factory(files.factory, "factory_fig" \in faults)))
  /\ pc' = "write_txt"
  /\ UNCHANGED <<files, faults, heart_args, results_txt, results_json, stdout>>

\* f"{r}\n\n": the text of one record, followed by a blank line
Entry(r) == <<"str", r, "\n\n">>

\* lines 209-212: not inside any try; a refused write leaves main() by the OSError
WriteTxt ==
  /\ pc = "write_txt"
  /\ IF "results_txt" \in faults
     THEN /\ pc' = "raised"
          /\ UNCHANGED results_txt
     ELSE /\ results_txt' = [exists |-> TRUE,
                             entries |-> [i \in 1..Len(results) |-> Entry(results[i])]]
          /\ pc' = "write_json"
  /\ UNCHANGED <<files, faults, results, heart_args, results_json, stdout>>

\* lines 215-219 without the except clause
WriteJson_NoExcept ==
  /\ pc = "write_json"
  /\ IF "results_json" \in faults
     THEN /\ pc' = "raised"
          /\ UNCHANGED results_json
     ELSE /\ pc' = "print"
          /\ results_json' = [exists |-> TRUE, body |-> results]
  /\ UNCHANGED <<files, faults, results, heart_args, results_txt, stdout>>

\* lines 215-219: try ... except Exception: pass
WriteJson ==
  /\ pc = "write_json"
  /\ IF "results_json" \in faults
     THEN UNCHANGED results_json
     ELSE results_json' = [exists |-> TRUE, body |-> results]
  /\ pc' = "print"
  /\ UNCHANGED <<files, faults, results, heart_args, results_txt, stdout>>

\* lines 221-222
PrintComplete ==
  /\ pc = "print"
  /\ stdout' = stdout \o <<"Analysis complete. Results written to: output/results.txt",
                           "Figures in: output/figures">>
  /\ pc' = "done"
  /\ UNCHANGED <<files, faults, results, heart_args, results_txt, results_json>>

Next ==
  \/ TryStudents
  \/ TryHeart
  \/ TryFactory
  \/ WriteTxt
  \/ WriteJson
  \/ PrintComplete

Spec == Init /\ [][Next]_vars

\* ------------------------------------------------------------------ claims
\* how many of the three try blocks main() has left behind it
Attempted ==
  CASE pc = "students" -> 0
    [] pc = "heart"    -> 1
    [] pc = "factory"  -> 2
    [] OTHER           -> 3

IsError(r) == DOMAIN r = {"test", "error"}

Tags == <<"students", "heart", "factory">>

Names == <<"Welch t-test (students)", "Paired (cholesterol)", "F-test (variance ratio)">>

\* C1: the three analyses are attempted once each, in the order students, heart,
\* factory, whatever fails: results holds one record per attempt made so far, the
\* i-th being the i-th analysis's result record or the error record that carries
\* the i-th analysis's tag, and so exactly three once the attempts are over.
C1_OneRecordPerAnalysis ==
  /\ pc \in {"students", "heart", "factory", "write_txt", "write_json", "print", "done", "raised"}
  /\ Len(results) = Attempted
  /\ \A i \in 1..Len(results) :
       IF IsError(results[i]) THEN results[i].test = Tags[i]
       ELSE results[i].test = Names[i]

\* C1 witness: the first analysis failed and the two after it still ran and
\* returned their results
C1_Witness ==
  /\ pc = "write_txt"
  /\ Len(results) = 3
  /\ IsError(results[1]) /\ results[1].test = "students"
  /\ ~IsError(results[2]) /\ results[2].test = "Paired (cholesterol)"
  /\ ~IsError(results[3]) /\ results[3].test = "F-test (variance ratio)"

\* the rows of the heart table in which both cholesterol cells are present
CompleteRows ==
  LabelsFrom([i \in 1..Len(files.heart.rows) |->
                /\ ~QIsNaN(files.heart.rows[i].cholesterol_before)
                /\ ~QIsNaN(files.heart.rows[i].cholesterol_after)], 1)

\* C2: the i-th `before` and the i-th `after` handed to the paired tests are the
\* two cells of one table row, and the rows used are exactly those where both
\* cells are present.
C2_PairsComeFromOneRow ==
  heart_args.reached =>
    /\ heart_args.before_labels = heart_args.after_labels
    /\ heart_args.before_labels = CompleteRows

\* the F-test record of this run, once analyze_factory has returned one
HasFactoryRecord == Len(results) >= 3 /\ ~IsError(results[3])

FactoryX == factory_group(files.factory.rows, "A")

FactoryY == factory_group(files.factory.rows, "B")

\* C3: every p-value of a result record lies in [0, 1] for non-degenerate
\* samples.  The p-values scipy returns are tail probabilities; the one the
\* program assembles itself is F_p_two_sided, and this states the claim for it.
C3_FPValueInUnitInterval ==
  (HasFactoryRecord /\ QGt(results[3].var_A, QInt(0)) /\ QGt(results[3].var_B, QInt(0))
     /\ QIsFinite(results[3].var_A) /\ QIsFinite(results[3].var_B))
  => /\ QLe(QInt(0), results[3].F_p_two_sided)
     /\ QLe(results[3].F_p_two_sided, QInt(1))

\* n * sum(x^2) - sum(x)^2, which is n * (n - 1) * var(x, ddof=1)
ScaledVar(x) ==
  LET sq == [i \in 1..Len(x) |-> QMul(x[i], x[i])]
  IN  QSub(QMul(QInt(Len(x)), SumQ(sq)), QMul(SumQ(x), SumQ(x)))

\* var(x, ddof=1) / var(y, ddof=1) from the sums of the two samples
VarRatio(x, y) ==
  QDiv(QMul(ScaledVar(x), QInt(Len(y) * (Len(y) - 1))),
       QMul(ScaledVar(y), QInt(Len(x) * (Len(x) - 1))))

\* C4: F_stat is var(A, ddof=1) / var(B, ddof=1), the degrees of freedom are
\* n_A - 1 and n_B - 1, and the p-value is 2 * (1 - CDF_F(F)) when F > 1 and
\* 2 * CDF_F(F) otherwise, F = 1 included.
C4_FTestBranch ==
  HasFactoryRecord =>
    LET r   == results[3]
        F   == VarRatio(FactoryX, FactoryY)
        cdf == f_cdf(F, Len(FactoryX) - 1, Len(FactoryY) - 1)
    IN  /\ r.F_stat = F
        /\ r.n_A = Len(FactoryX) /\ r.n_B = Len(FactoryY)
        /\ r.F_p_two_sided = IF QGt(F, QInt(1))
                             THEN QMul(QInt(2), QSub(QInt(1), cdf))
                             ELSE QMul(QInt(2), cdf)

\* C4 witness: an F-test of samples of different sizes whose ratio is exactly 1
C4_Witness ==
  /\ HasFactoryRecord
  /\ results[3].F_stat = QInt(1)
  /\ results[3].n_A # results[3].n_B
  /\ results[3].F_p_two_sided = QMul(QInt(2), f_cdf(QInt(1), results[3].n_A - 1, results[3].n_B - 1))

\* C5: with the two samples swapped the F statistic is the reciprocal and the
\* two-sided p-value is the same, for samples of non-zero variance.
C5_FTestSwapSymmetric ==
  (HasFactoryRecord /\ QGt(results[3].var_A, QInt(0)) /\ QGt(results[3].var_B, QInt(0)))
  => LET swapped == f_test(FactoryY, FactoryX)
     IN  /\ results[3].F_stat = QInv(swapped.f_stat)
         /\ results[3].F_p_two_sided = swapped.p

HasStudentsRecord == Len(results) >= 1 /\ ~IsError(results[1])

StudentsA == students_group(files.students.rows, "A")

StudentsB == students_group(files.students.rows, "B")

NotAllEqual(x) == \E i, j \in 1..Len(x) : x[i] # x[j]

SZero == [s |-> 0, q |-> QInt(0)]

\* C6 as stated: cohen_d_independent(a, a) is 0 for every sample a with n >= 2,
\* samples whose values are all equal included.
C6_SameSampleZero ==
  (HasStudentsRecord /\ StudentsA = StudentsB /\ Len(StudentsA) >= 2)
  => results[1].cohens_d = SZero

\* C6 amended: cohen_d_independent(a, a) is 0 for every sample a with n >= 2
\* whose values are not all equal, and NaN (0/0) when they are all equal.
C6_SameSampleZeroOrNaN ==
  (HasStudentsRecord /\ StudentsA = StudentsB /\ Len(StudentsA) >= 2)
  => IF NotAllEqual(StudentsA) THEN results[1].cohens_d = SZero
     ELSE SIsNaN(results[1].cohens_d)

\* C6 witness: the two groups hold the same, not all equal, scores
C6_Witness ==
  /\ HasStudentsRecord
  /\ StudentsA = StudentsB /\ Len(StudentsA) >= 2 /\ NotAllEqual(StudentsA)
  /\ results[1].cohens_d = SZero

\* C7: when sample B has zero variance and sample A a positive one, the third
\* record is never a result with a finite F_stat: it is an error record or its
\* F_stat is not finite.
C7_ZeroVarianceNotFinite ==
  (Len(results) >= 3 /\ Len(FactoryX) >= 2 /\ Len(FactoryY) >= 2
     /\ NotAllEqual(FactoryX) /\ ~NotAllEqual(FactoryY))
  => \/ IsError(results[3])
     \/ ~QIsFinite(results[3].F_stat)

\* C7 witness: such a table was analysed and the record carries F_stat = +inf
C7_Witness ==
  /\ HasFactoryRecord
  /\ Len(FactoryX) >= 2 /\ Len(FactoryY) >= 2
  /\ NotAllEqual(FactoryX) /\ ~NotAllEqual(FactoryY)
  /\ results[3].var_B = QInt(0)
  /\ results[3].F_stat = QInf

HasHeartRecord == Len(results) >= 2 /\ ~IsError(results[2])

\* the per-pair differences of the arrays that reached the paired test
HeartDiffs == ArrSub(heart_args.before, heart_args.after)

\* C8: the record carries the paired t-test and the paired z-test side by side,
\* both from the differences d_i = before_i - after_i: z is
\* mean(d) / (sd(d, ddof=1) / sqrt(n)), that is sign(S) * sqrt(S^2 (n-1) / (n*SS - S^2))
\* with S = sum(d) and SS = sum(d^2); z equals the paired t statistic and
\* cohens_d_paired * sqrt(n); the z p-value is the two-sided normal tail at |z|
\* and the t p-value the two-sided Student tail with n - 1 degrees of freedom.
C8_PairedZBesideT ==
  HasHeartRecord =>
    LET r == results[2]
        n == Len(heart_args.before)
        S == SumQ(HeartDiffs)
        z == SMk(Sgn(S.n), QDiv(QMul(QMul(S, S), QInt(n - 1)), ScaledVar(HeartDiffs)))
    IN  /\ r.n = n
        /\ r.paired_z_stat = z
        /\ r.paired_t_stat = r.paired_z_stat
        /\ SMul(r.cohens_d_paired, SSqrt(QInt(n))) = r.paired_z_stat
        /\ r.paired_z_p = TailProb("2*norm.sf", QNaN, QNaN, SAbs(z))
        /\ r.paired_t_p = TailProb("2*t.sf", QInt(n - 1), QNaN, SAbs(z))

\* C8 witness: a table of at least two complete pairs with a finite, non-zero z
C8_Witness ==
  /\ HasHeartRecord
  /\ results[2].n >= 2
  /\ SIsFinite(results[2].paired_z_stat)
  /\ results[2].paired_z_stat.s # 0
  /\ results[2].paired_t_stat = results[2].paired_z_stat

\* what holds of the output files at each position of main()
OutputsInv ==
  /\ pc \in {"students", "heart", "factory", "write_txt"}
       => ~results_txt.exists /\ ~results_json.exists /\ stdout = <<>>
  /\ pc \in {"write_json", "print", "done"}
       => /\ results_txt.exists
          /\ Len(results_txt.entries) = 3
          /\ \A i \in 1..3 : results_txt.entries[i] = Entry(results[i])
  /\ pc = "write_json" => ~results_json.exists
  /\ pc \in {"print", "done"} => (results_json.exists <=> "results_json" \notin faults)
  /\ pc = "raised" => "results_txt" \in faults
  /\ pc = "done" => Len(stdout) = 2

\* the results.json attempt, refused or not, goes on to the final message and
\* leaves results.txt alone; the final message ends main()
TailSteps ==
  /\ pc = "write_json" => pc' = "print" /\ results_txt' = results_txt
  /\ pc = "print" => pc' = "done" /\ results_txt' = results_txt /\ results_json' = results_json

\* C9: the output files are written only after the three attempts; results.txt
\* comes first, one entry per record in order; a refused results.json write is
\* swallowed, leaves results.txt as it is, and main() goes on to its final
\* message: for every combination of analysis failures and of a results.json
\* failure main() ends with three entries in results.txt, and only a refused
\* results.txt write lets an exception leave main().
C9_OutputsAfterAnalyses == []OutputsInv /\ [][TailSteps]_vars

\* C9 witness: an analysis failed, results.json could not be written, and main()
\* is done with three entries in results.txt
C9_Witness ==
  /\ pc = "done"
  /\ "results_json" \in faults
  /\ ~results_json.exists
  /\ \E i \in 1..3 : IsError(results[i])
  /\ Len(results_txt.entries) = 3
  /\ Len(stdout) = 2

\* the labels each column keeps when only its own missing cells are dropped
BeforePresent ==
  LabelsFrom([i \in 1..Len(files.heart.rows) |->
                ~QIsNaN(files.heart.rows[i].cholesterol_before)], 1)

AfterPresent ==
  LabelsFrom([i \in 1..Len(files.heart.rows) |->
                ~QIsNaN(files.heart.rows[i].cholesterol_after)], 1)

\* C10: `before` and `after` reach the paired t-test with one length, and the
\* reported n is that length: they are the per-column filtered arrays when
\* those have equal length, and the rows with both cells present otherwise.
C10_EqualLengths ==
  heart_args.reached =>
    /\ Len(heart_args.before) = Len(heart_args.after)
    /\ IF Len(BeforePresent) = Len(AfterPresent)
       THEN heart_args.before_labels = BeforePresent /\ heart_args.after_labels = AfterPresent
       ELSE heart_args.before_labels = CompleteRows /\ heart_args.after_labels = CompleteRows
    /\ HasHeartRecord => /\ results[2].n = Len(heart_args.before)
                         /\ results[2].n = Len(heart_args.after)

\* C10 witness: the columns miss different numbers of cells, the arrays were
\* rebuilt from the complete rows, and a record reports their length
C10_Witness ==
  /\ heart_args.reached
  /\ Len(BeforePresent) # Len(AfterPresent)
  /\ HasHeartRecord
  /\ results[2].n = Len(CompleteRows)
  /\ results[2].n >= 2

====
